---- MODULE Spec2Model ----
(***************************************************************************)
(* The interview session state machine of backend/app/api/interview.py,    *)
(* with the services it calls (evaluation.py, llm.py, stt.py, tts.py).     *)
(*                                                                         *)
(* Texts returned by the language model are sequences of lexical tokens:   *)
(* the code fence, the word json, JSON punctuation, string and number      *)
(* literals, and prose words.  Python values are records tagged by kind.   *)
(* The handlers are coroutines on one asyncio event loop: a step of the    *)
(* model runs one coroutine from where it stands to its next suspension.   *)
(***************************************************************************)
EXTENDS Integers, Sequences, FiniteSets, TLC

\* ------------------------------------------------------------------ bounds

\* Sessions the store may hold, and requests that may be in flight at once.
MaxSessions == 2
NumTasks == 2
\* Tokens of a reply handed to a parser on its own.
MaxReplyLen == 4
\* Recorded answers of a session handed to summary on its own.
MaxTurns == 2

\* ------------------------------------------------------------ Python values

PyStr(parts) == [kind |-> "str", val |-> parts]
PyNum(tok) == [kind |-> "num", val |-> <<tok>>]
PyList(items) == [kind |-> "list", val |-> items]
PyDict(map) == [kind |-> "dict", val |-> map]
PyNone == [kind |-> "none", val |-> <<>>]

\* The characters of the string literals the modelled replies use.
LitChars(tok) ==
    CASE tok = "q1" -> <<"q", "1">>
      [] tok = "q2" -> <<"q", "2">>
      [] tok = "q3" -> <<"q", "3">>
      [] tok = "k" -> <<"k">>
      [] OTHER -> <<tok>>

\* len(v): defined for str, list and dict; TypeError for the other kinds.
HasLen(v) == v.kind \in {"str", "list", "dict"}

PyLen(v) ==
    CASE v.kind = "list" -> Len(v.val)
      [] v.kind = "dict" -> Cardinality(DOMAIN v.val)
      [] v.kind = "str" -> IF Len(v.val) = 1 THEN Len(LitChars(v.val[1])) ELSE Len(v.val)
      [] OTHER -> 0

\* v[i] with a 0-based integer i: TypeError for a number, KeyError for a dict
\* (JSON keys are strings), IndexError beyond the end.
SubscriptError(v, i) ==
    CASE v.kind \in {"num", "none"} -> "TypeError"
      [] v.kind = "dict" -> "KeyError"
      [] i >= PyLen(v) -> "IndexError"
      [] OTHER -> "none"

Subscript(v, i) ==
    CASE v.kind = "list" -> v.val[i + 1]
      [] v.kind = "str" ->
           IF Len(v.val) = 1 THEN PyStr(<<LitChars(v.val[1])[i + 1]>>)
           ELSE PyStr(<<v.val[i + 1]>>)
      [] OTHER -> PyNone

\* str(v), as an f-string formats a value: the text of a string, the
\* literal of a number, the bracketed items of a list or a dict.
RECURSIVE Format(_), FormatItems(_, _)
Format(v) ==
    CASE v.kind = "str" -> v.val
      [] v.kind = "num" -> v.val
      [] v.kind = "list" -> <<"[">> \o FormatItems(v.val, 1) \o <<"]">>
      [] v.kind = "dict" -> <<"{", "...", "}">>
      [] OTHER -> <<"None">>

FormatItems(items, i) ==
    IF i > Len(items) THEN <<>>
    ELSE Format(items[i]) \o (IF i < Len(items) THEN <<", ">> ELSE <<>>)
             \o FormatItems(items, i + 1)

\* ------------------------------------------------------------------ tokens

FENCE == "fence"
StrLits == {"q1", "q2", "q3", "k", "relevance", "clarity", "correctness", "feedback", "fb"}
NumLits == {"6", "7", "8", "9", "10", "11"}

Bad == [ok |-> FALSE, next |-> 0, val |-> PyNone]
Good(n, v) == [ok |-> TRUE, next |-> n, val |-> v]

\* The JSON grammar over tokens: the value that starts at position i.
RECURSIVE JsonValue(_, _), JsonElems(_, _, _), JsonMembers(_, _, _)
JsonValue(txt, i) ==
    IF i > Len(txt) THEN Bad
    ELSE IF txt[i] \in StrLits THEN Good(i + 1, PyStr(<<txt[i]>>))
    ELSE IF txt[i] \in NumLits THEN Good(i + 1, PyNum(txt[i]))
    ELSE IF txt[i] = "[" THEN
        IF i + 1 <= Len(txt) /\ txt[i + 1] = "]" THEN Good(i + 2, PyList(<<>>))
        ELSE JsonElems(txt, i + 1, <<>>)
    ELSE IF txt[i] = "{" THEN
        IF i + 1 <= Len(txt) /\ txt[i + 1] = "}" THEN Good(i + 2, PyDict(<<>>))
        ELSE JsonMembers(txt, i + 1, <<>>)
    ELSE Bad

JsonElems(txt, i, acc) ==
    LET r == JsonValue(txt, i) IN
    IF ~r.ok \/ r.next > Len(txt) THEN Bad
    ELSE IF txt[r.next] = "]" THEN Good(r.next + 1, PyList(Append(acc, r.val)))
    ELSE IF txt[r.next] = "," THEN JsonElems(txt, r.next + 1, Append(acc, r.val))
    ELSE Bad

JsonMembers(txt, i, acc) ==
    IF i + 1 > Len(txt) \/ txt[i] \notin StrLits \/ txt[i + 1] # ":" THEN Bad
    ELSE LET r == JsonValue(txt, i + 2)
             map == (txt[i] :> r.val) @@ acc
         IN  IF ~r.ok \/ r.next > Len(txt) THEN Bad
             ELSE IF txt[r.next] = "}" THEN Good(r.next + 1, PyDict(map))
             ELSE IF txt[r.next] = "," THEN JsonMembers(txt, r.next + 1, map)
             ELSE Bad

\* json.loads: the whole text must be one JSON value, else JSONDecodeError.
JsonLoads(txt) ==
    LET r == JsonValue(txt, 1) IN
    IF r.ok /\ r.next = Len(txt) + 1 THEN Good(r.next, r.val) ELSE Bad

\* re.search of the fenced pattern (fence, optional word json, the lazy
\* bracketed group, fence) with re.DOTALL: the leftmost fence followed by an
\* opening bracket, up to the first closing bracket that is followed by a
\* fence.  The empty sequence when there is no match.
FencedSpan(txt, open, close) ==
    LET Start(i) == IF i + 1 <= Len(txt) /\ txt[i + 1] = "json" THEN i + 2 ELSE i + 1
        Ends(i) == {k \in (Start(i) + 1)..(Len(txt) - 1) :
                        txt[k] = close /\ txt[k + 1] = FENCE}
        Hits == {i \in 1..Len(txt) :
                    /\ txt[i] = FENCE
                    /\ Start(i) <= Len(txt)
                    /\ txt[Start(i)] = open
                    /\ Ends(i) # {}}
        Min(S) == CHOOSE x \in S : \A y \in S : x <= y
    IN  IF Hits = {} THEN <<>>
        ELSE SubSeq(txt, Start(Min(Hits)), Min(Ends(Min(Hits))))

\* re.search of the greedy bracketed pattern with re.DOTALL: from the first
\* opening bracket to the last closing bracket after it.  The empty sequence
\* when there is no match.
GreedySpan(txt, open, close) ==
    LET Opens == {i \in 1..Len(txt) : txt[i] = open}
        Closes == {i \in 1..Len(txt) : txt[i] = close}
        Min(S) == CHOOSE x \in S : \A y \in S : x <= y
        Max(S) == CHOOSE x \in S : \A y \in S : x >= y
    IN  IF Opens = {} \/ Closes = {} \/ Max(Closes) < Min(Opens) THEN <<>>
        ELSE SubSeq(txt, Min(Opens), Max(Closes))

\* The extraction both parsers share: the fenced span, else the greedy
\* span, else the text as it is.
Extract(txt, open, close) ==
    IF FencedSpan(txt, open, close) # <<>> THEN FencedSpan(txt, open, close)
    ELSE IF GreedySpan(txt, open, close) # <<>> THEN GreedySpan(txt, open, close)
    ELSE txt

\* ---------------------------------------------------------------- services

\* str.strip(): the text without its leading and trailing blanks.
Strip(txt) ==
    LET Solid == {i \in 1..Len(txt) : txt[i] # " "}
        Min(S) == CHOOSE x \in S : \A y \in S : x <= y
        Max(S) == CHOOSE x \in S : \A y \in S : x >= y
    IN  IF Solid = {} THEN <<>> ELSE SubSeq(txt, Min(Solid), Max(Solid))

\* The three questions generate_questions falls back to; the name prefix is
\* empty when the name is.
FallbackQuestions(role, name) ==
    LET name_prefix == IF name # <<>> THEN name \o <<", ">> ELSE <<>> IN
    PyList(<<PyStr(name_prefix \o <<"Tell me about your experience with ", role,
                                    " responsibilities.">>),
             PyStr(name_prefix \o <<"What technical skills do you bring to the ", role,
                                    " position?">>),
             PyStr(<<"Describe a challenging project you've worked on.">>)>>)

\* generate_questions after its call_llm returned reply: whatever json.loads
\* makes of the extracted span, the fallback only on JSONDecodeError.
GenerateQuestions(role, name, reply) ==
    LET r == JsonLoads(Extract(reply, "[", "]")) IN
    IF r.ok THEN r.val ELSE FallbackQuestions(role, name)

FallbackEvaluation ==
    PyDict([relevance |-> PyNum("5"), clarity |-> PyNum("5"), correctness |-> PyNum("5"),
            feedback |-> PyStr(<<"Unable to evaluate answer properly. Please try again.">>)])

\* evaluate_answer after its call_llm returned reply.
EvaluateAnswer(reply) ==
    LET r == JsonLoads(Extract(reply, "{", "}")) IN
    IF r.ok THEN r.val ELSE FallbackEvaluation

\* Positional parameters of evaluate_answer, and the arguments submit_answer
\* passes to it: Python raises TypeError at the call when there are more
\* arguments than parameters.
EvaluateAnswerParams == 2
EvaluateAnswerArgs == 3

\* call_llm is a coroutine function whose body makes one blocking call of the
\* synchronous OpenAI client and awaits nothing, so awaiting it never gives
\* the event loop to another request.  speech_to_text is the same.
\* Variant: call_llm awaits an asynchronous client.
CallLlmAwaitsNetwork == TRUE

CallLlmYields == FALSE

\* ------------------------------------------------------------------- state

VARIABLES
    provider,   \* settings.TTS_PROVIDER
    SESSIONS,   \* the session store: interview id -> session
    pc,         \* per request slot: where its coroutine is suspended
    loc,        \* per request slot: the coroutine's local variables
    accepted,   \* history: per session, the normal turns that returned 200
    outage,     \* history: some gateway call has failed at transport level
    ev,         \* history: what the last step of the event loop did
    peeked,     \* history: what next_question last answered, and for which
                \* id, if no submit_answer on that id returned 200 since
    gen         \* the parsers on their own: a reply and what is made of it

vars == <<provider, SESSIONS, pc, loc, accepted, outage, ev, peeked, gen>>

Tasks == 1..NumTasks
\* uuid4 values; one more than the store may hold, so that an id that no
\* session has always exists.
Ids == 1..(MaxSessions + 1)
Roles == {"Backend Engineer"}

\* What the gateways may answer.  FAIL is a transport failure (an exception).
FAIL == <<"FAIL">>
RawTexts == {<<" ", "A", "l", " ">>, <<" ">>}
\* One reply of each form the model is known to give: a fenced array, an
\* array inside prose, an empty array, an object, a fenced object, a scalar,
\* prose, and an array cut short.
Replies ==
    { <<"fence", "json", "[", "q1", ",", "q2", "]", "fence">>,
      <<"w", "[", "q1", ",", "q2", "]", "w">>,
      <<"[", "]">>,
      <<"{", "k", ":", "q1", "}">>,
      <<"fence", "{", "relevance", ":", "7", ",", "clarity", ":", "7", ",",
        "correctness", ":", "11", ",", "feedback", ":", "fb", "}", "fence">>,
      <<"7">>,
      <<"w", "w">>,
      <<"[", "q1", ",">> }
AudioFile == <<"audio.mp3">>

SttOutcomes == RawTexts \cup {FAIL}
LlmOutcomes == Replies \cup {FAIL}
TtsOutcomes == {AudioFile, FAIL}

\* A gateway that a step does not call answers nothing: its outcome is fixed.
Called(called, outcomes) == IF called THEN outcomes ELSE {FAIL}

\* text_to_speech awaits the network only through edge_tts; the ElevenLabs
\* branch posts with the blocking requests library.
TtsYields == provider = "edge"

NoLoc == [op |-> "none", sid |-> 0, transcript |-> <<>>, name |-> <<>>, question |-> PyNone]
NoBody == [detail |-> "", transcript |-> <<>>, evaluation |-> PyNone,
           question |-> PyNone, audio_file |-> <<>>, name_collected |-> FALSE,
           summary |-> PyNone]
NoEvent == [task |-> 0, op |-> "none", sid |-> 0, branch |-> "none", touched |-> FALSE,
            done |-> FALSE, status |-> 0, cause |-> "none", body |-> NoBody]

\* Python's None, as a candidate name; a spoken name is a sequence of characters.
NONE == <<"None">>

\* Variant: the question counter starts at one.
NewSessionFromOne(role) ==
    [role |-> role, index |-> 1, questions |-> PyList(<<>>), answers |-> <<>>,
     awaiting_name |-> TRUE, candidate_name |-> NONE]

\* The session start_interview stores.
NewSession(role) ==
    [role |-> role, index |-> 0, questions |-> PyList(<<>>), answers |-> <<>>,
     awaiting_name |-> TRUE, candidate_name |-> NONE]

\* No answer of next_question is on record.
NoPeek == [sid |-> 0, status |-> 0, body |-> NoBody]

NoGen == [reply |-> <<>>, name |-> <<>>, fn |-> "none", out |-> PyNone]

Init ==
    /\ provider \in {"edge", "elevenlabs"}
    /\ SESSIONS = <<>>
    /\ pc = [t \in Tasks |-> "idle"]
    /\ loc = [t \in Tasks |-> NoLoc]
    /\ accepted = <<>>
    /\ outage = FALSE
    /\ ev = NoEvent
    /\ peeked = NoPeek
    /\ gen = NoGen

\* ------------------------------------------------------------ control flow

\* The coroutine of slot t returns or raises: the response goes out.
Respond(t, op, sid, branch, touched, status, cause, body) ==
    /\ pc' = [pc EXCEPT ![t] = "idle"]
    /\ loc' = [loc EXCEPT ![t] = NoLoc]
    /\ outage' = (outage \/ cause \in {"stt", "llm", "tts"})
    /\ peeked' = IF op = "next" /\ status # 404 /\ cause # "tts"
                 THEN [sid |-> sid, status |-> status, body |-> body]
                 ELSE IF op = "submit" /\ status = 200 /\ sid = peeked.sid
                 THEN NoPeek
                 ELSE peeked
    /\ UNCHANGED gen
    /\ ev' = [task |-> t, op |-> op, sid |-> sid, branch |-> branch, touched |-> touched,
              done |-> TRUE, status |-> status, cause |-> cause, body |-> body]

\* The coroutine of slot t suspends at an await, keeping its locals.
Suspend(t, at, locals, branch, touched) ==
    /\ pc' = [pc EXCEPT ![t] = at]
    /\ loc' = [loc EXCEPT ![t] = locals]
    /\ UNCHANGED <<outage, peeked, gen>>
    /\ ev' = [task |-> t, op |-> locals.op, sid |-> locals.sid, branch |-> branch,
              touched |-> touched, done |-> FALSE, status |-> 0, cause |-> "none",
              body |-> NoBody]

Error(detail) == [NoBody EXCEPT !.detail = detail]

\* Variant: the test accepts any id.
KnownAny(id) == id \in Ids

\* The test each handler starts with (lines 100, 162, 184).
Known(id) == id \in DOMAIN SESSIONS

\* Variant: the test is off by one.
CompletedStrict(idx, questions) == idx > PyLen(questions)

\* The test of lines 136 and 168: no question is left.
Completed(idx, questions) == idx >= PyLen(questions)

\* Variant: the name is counted as an answer.
NameStoredCounted(session, name) ==
    [session EXCEPT !.candidate_name = name, !.awaiting_name = FALSE, !.index = @ + 1]

\* Variant: the name is stored and the flag is left set.
NameStoredOnly(session, name) == [session EXCEPT !.candidate_name = name]

\* Lines 112-113: the name branch stores the name and clears the flag.
NameStored(session, name) ==
    [session EXCEPT !.candidate_name = name, !.awaiting_name = FALSE]

\* ---------------------------------------------------------- submit_answer

\* Lines 144-155, after evaluate_answer returned: the turn is appended and
\* the index of the session, as it is now, goes up by one.
RecordTurn(t, id, question, transcript, evaluation) ==
    /\ SESSIONS' = [SESSIONS EXCEPT
            ![id].answers = Append(@, [question |-> question, transcript |-> transcript,
                                       evaluation |-> evaluation]),
            ![id].index = @ + 1]
    /\ accepted' = [accepted EXCEPT ![id] = @ + 1]
    /\ Respond(t, "submit", id, "turn", TRUE, 200, "none",
               [NoBody EXCEPT !.transcript = transcript, !.evaluation = evaluation])

\* evaluate_answer from the return of its call_llm (lines 18-42), then the
\* rest of submit_answer.
AfterEvalLlm(t, id, question, transcript, llm) ==
    IF llm = FAIL
    THEN /\ UNCHANGED <<SESSIONS, accepted>>
         /\ Respond(t, "submit", id, "turn", FALSE, 500, "llm", Error("ServiceError"))
    ELSE RecordTurn(t, id, question, transcript, EvaluateAnswer(llm))

\* The normal answer flow, lines 132-142.
NormalTurn(t, id, transcript, llm) ==
    LET session == SESSIONS[id]
        idx == session.index
        questions == session.questions
        Raise(status, cause, detail) ==
            /\ UNCHANGED <<SESSIONS, accepted>>
            /\ Respond(t, "submit", id, "turn", TRUE, status, cause, Error(detail))
    IN  IF ~HasLen(questions) THEN Raise(500, "TypeError", "TypeError")
        ELSE IF Completed(idx, questions)
        THEN Raise(400, "Conflict", "Interview already completed")
        ELSE IF SubscriptError(questions, idx) # "none"
        THEN Raise(500, SubscriptError(questions, idx), SubscriptError(questions, idx))
        ELSE IF EvaluateAnswerArgs > EvaluateAnswerParams
        THEN Raise(500, "TypeError", "TypeError")
        ELSE IF CallLlmYields
        THEN /\ UNCHANGED <<SESSIONS, accepted>>
             /\ Suspend(t, "eval_llm",
                        [loc[t] EXCEPT !.transcript = transcript,
                                       !.question = Subscript(questions, idx)],
                        "turn", TRUE)
        ELSE AfterEvalLlm(t, id, Subscript(questions, idx), transcript, llm)

\* The name branch from the return of text_to_speech, lines 122-130.
AfterNameTts(t, id, store, transcript, first_question, touched, tts) ==
    /\ SESSIONS' = store
    /\ UNCHANGED accepted
    /\ IF tts = FAIL
       THEN Respond(t, "submit", id, "name", touched, 500, "tts", Error("ServiceError"))
       ELSE Respond(t, "submit", id, "name", touched, 200, "none",
                    [NoBody EXCEPT !.transcript = transcript, !.question = first_question,
                                   !.audio_file = tts, !.name_collected = TRUE])

\* Variant: the first question goes out without the greeting.
FirstQuestionBare(name, questions) == PyStr(Format(Subscript(questions, 0)))

\* Line 121: the greeting with the name, then questions[0] as str formats it.
FirstQuestion(name, questions) ==
    PyStr(<<"Thank you, ">> \o name \o <<"! ">> \o Format(Subscript(questions, 0)))

\* The name branch from the return of call_llm inside generate_questions:
\* lines 43-66, then 118-122.  store is the session store as the coroutine
\* has left it so far.
AfterGenLlm(t, id, store, transcript, name, llm, tts) ==
    IF llm = FAIL
    THEN /\ SESSIONS' = store
         /\ UNCHANGED accepted
         /\ Respond(t, "submit", id, "name", TRUE, 500, "llm", Error("ServiceError"))
    ELSE LET questions == GenerateQuestions(store[id].role, name, llm)
             stored == [store EXCEPT ![id].questions = questions]
             first_question == FirstQuestion(name, questions)
         IN  IF SubscriptError(questions, 0) # "none"
             THEN /\ SESSIONS' = stored
                  /\ UNCHANGED accepted
                  /\ Respond(t, "submit", id, "name", TRUE, 500,
                             SubscriptError(questions, 0), Error(SubscriptError(questions, 0)))
             ELSE IF TtsYields
             THEN /\ SESSIONS' = stored
                  /\ UNCHANGED accepted
                  /\ Suspend(t, "tts",
                             [loc[t] EXCEPT !.transcript = transcript, !.name = name,
                                            !.question = first_question],
                             "name", TRUE)
             ELSE AfterNameTts(t, id, stored, transcript, first_question, TRUE, tts)

\* The name branch, lines 109-117: the name and the flag are stored before
\* the questions are asked for.
CollectName(t, id, transcript, llm, tts) ==
    LET name == Strip(transcript)
        store == [SESSIONS EXCEPT ![id] = NameStored(@, name)]
    IN  IF CallLlmYields
        THEN /\ SESSIONS' = store
             /\ UNCHANGED accepted
             /\ Suspend(t, "gen_llm",
                        [loc[t] EXCEPT !.transcript = transcript, !.name = name],
                        "name", TRUE)
        ELSE AfterGenLlm(t, id, store, transcript, name, llm, tts)

\* submit_answer from the return of audio.read(), lines 103-109.  The text
\* speech_to_text returns is already stripped.
AfterRead(t, id, stt, llm, tts) ==
    IF stt = FAIL
    THEN /\ UNCHANGED <<SESSIONS, accepted>>
         /\ Respond(t, "submit", id, "none", FALSE, 500, "stt", Error("ServiceError"))
    ELSE IF id \notin DOMAIN SESSIONS
    THEN /\ UNCHANGED <<SESSIONS, accepted>>
         /\ Respond(t, "submit", id, "none", FALSE, 500, "KeyError", Error("KeyError"))
    ELSE IF SESSIONS[id].awaiting_name
    THEN CollectName(t, id, Strip(stt), llm, tts)
    ELSE NormalTurn(t, id, Strip(stt), llm)

\* A request to submit_answer arrives: lines 100-103.
SubmitAnswer(t, id) ==
    /\ pc[t] = "idle"
    /\ UNCHANGED <<provider, SESSIONS, accepted>>
    /\ IF ~Known(id)
       THEN Respond(t, "submit", id, "none", FALSE, 404, "NotFound",
                    Error("Invalid interview session"))
       ELSE Suspend(t, "read", [NoLoc EXCEPT !.op = "submit", !.sid = id], "none", FALSE)

\* ---------------------------------------------------------- next_question

\* next_question from the return of text_to_speech, lines 172-177.
AfterNextTts(t, id, question, touched, tts) ==
    IF tts = FAIL
    THEN Respond(t, "next", id, "none", touched, 500, "tts", Error("ServiceError"))
    ELSE Respond(t, "next", id, "none", touched, 200, "none",
                 [NoBody EXCEPT !.question = question, !.audio_file = tts])

\* A request to next_question arrives: lines 162-172.
NextQuestion(t, id, tts) ==
    /\ pc[t] = "idle"
    /\ UNCHANGED <<provider, SESSIONS, accepted>>
    /\ IF ~Known(id)
       THEN Respond(t, "next", id, "none", FALSE, 404, "NotFound",
                    Error("Invalid interview session"))
       ELSE IF id \notin DOMAIN SESSIONS
       THEN Respond(t, "next", id, "none", FALSE, 500, "KeyError", Error("KeyError"))
       ELSE LET idx == SESSIONS[id].index
                questions == SESSIONS[id].questions
            IN  IF ~HasLen(questions)
                THEN Respond(t, "next", id, "none", TRUE, 500, "TypeError", Error("TypeError"))
                ELSE IF Completed(idx, questions)
                THEN Respond(t, "next", id, "none", TRUE, 200, "none", Error("completed"))
                ELSE IF SubscriptError(questions, idx) # "none"
                THEN Respond(t, "next", id, "none", TRUE, 500,
                             SubscriptError(questions, idx), Error(SubscriptError(questions, idx)))
                ELSE IF TtsYields
                THEN Suspend(t, "tts",
                             [NoLoc EXCEPT !.op = "next", !.sid = id,
                                           !.question = Subscript(questions, idx)],
                             "none", TRUE)
                ELSE AfterNextTts(t, id, Subscript(questions, idx), TRUE, tts)

\* ---------------------------------------------------------------- summary

\* The number a numeric literal stands for.
NumVal(v) ==
    CASE v.val = <<"5">> -> 5 [] v.val = <<"6">> -> 6 [] v.val = <<"7">> -> 7
      [] v.val = <<"8">> -> 8 [] v.val = <<"9">> -> 9 [] v.val = <<"10">> -> 10
      [] v.val = <<"11">> -> 11 [] OTHER -> 0

Scores == {"relevance", "clarity", "correctness"}

\* What lines 199-205 raise while they format the turns: a subscript by a
\* string of a value that is no dict, or a key the dict has not.
ContextError(answers) ==
    IF \E i \in 1..Len(answers) : answers[i].evaluation.kind # "dict" THEN "TypeError"
    ELSE IF \E i \in 1..Len(answers) :
                ~(Scores \cup {"feedback"} \subseteq DOMAIN answers[i].evaluation.val)
    THEN "KeyError"
    ELSE "none"

\* What the sums of lines 245-247 raise: as above, or the TypeError of adding
\* a score that is no number.
ScoreError(answers) ==
    IF \E i \in 1..Len(answers) : answers[i].evaluation.kind # "dict" THEN "TypeError"
    ELSE IF \E i \in 1..Len(answers) : ~(Scores \subseteq DOMAIN answers[i].evaluation.val)
    THEN "KeyError"
    ELSE IF \E i \in 1..Len(answers) : \E k \in Scores :
                answers[i].evaluation.val[k].kind # "num"
    THEN "TypeError"
    ELSE "none"

RECURSIVE SumOf(_, _, _)
SumOf(answers, key, i) ==
    IF i > Len(answers) THEN 0
    ELSE NumVal(answers[i].evaluation.val[key]) + SumOf(answers, key, i + 1)

\* sum(...) / len(answers) formatted with .1f, in tenths, rounded to the
\* nearest tenth.
MeanTenths(answers, key) ==
    (SumOf(answers, key, 1) * 100 + 5 * Len(answers)) \div (10 * Len(answers))

\* The summary the handler computes itself when json.loads fails, lines 244-254.
FallbackSummary(answers) ==
    PyDict([overall_feedback |->
                [kind |-> "format",
                 val |-> [count |-> Len(answers),
                          relevance |-> MeanTenths(answers, "relevance"),
                          clarity |-> MeanTenths(answers, "clarity"),
                          correctness |-> MeanTenths(answers, "correctness")]],
            strengths |-> PyStr(<<"Demonstrated engagement throughout the interview">>),
            improvements |-> PyStr(<<"Continue practicing to improve scores across all evaluation criteria">>)])

\* Variant: the fixed summary says nothing.
EmptySummaryBlank ==
    PyDict([overall_feedback |-> PyStr(<<"">>),
            strengths |-> PyStr(<<"N/A">>),
            improvements |-> PyStr(<<"N/A">>)])

\* Lines 189-194: the summary of a session without answers.
EmptySummary ==
    PyDict([overall_feedback |-> PyStr(<<"No answers recorded yet.">>),
            strengths |-> PyStr(<<"N/A">>),
            improvements |-> PyStr(<<"N/A">>)])

\* summary from the return of call_llm, lines 225-254.  answers is the list
\* object of the session, read as it is now.  The branch of the event names
\* the path taken: empty (the return of line 189, before any gateway call),
\* context (an exception of lines 199-205), llm (call_llm raised), parsed
\* (json.loads returned) or fallback (the except branch).
AfterSumLlm(t, id, touched, llm) ==
    LET answers == SESSIONS[id].answers
        r == JsonLoads(Extract(llm, "{", "}"))
    IN  IF llm = FAIL
        THEN Respond(t, "summary", id, "llm", touched, 500, "llm", Error("ServiceError"))
        ELSE IF r.ok
        THEN Respond(t, "summary", id, "parsed", touched, 200, "none",
                     [NoBody EXCEPT !.summary = r.val])
        ELSE IF ScoreError(answers) # "none"
        THEN Respond(t, "summary", id, "fallback", TRUE, 500,
                     ScoreError(answers), Error(ScoreError(answers)))
        ELSE Respond(t, "summary", id, "fallback", TRUE, 200, "none",
                     [NoBody EXCEPT !.summary = FallbackSummary(answers)])

\* A request to summary arrives: lines 184-223.
Summary(t, id, llm) ==
    /\ pc[t] = "idle"
    /\ UNCHANGED <<provider, SESSIONS, accepted>>
    /\ IF ~Known(id)
       THEN Respond(t, "summary", id, "none", FALSE, 404, "NotFound",
                    Error("Invalid interview session"))
       ELSE IF id \notin DOMAIN SESSIONS
       THEN Respond(t, "summary", id, "none", FALSE, 500, "KeyError", Error("KeyError"))
       ELSE IF SESSIONS[id].answers = <<>>
       THEN Respond(t, "summary", id, "empty", TRUE, 200, "none",
                    [NoBody EXCEPT !.summary = EmptySummary])
       ELSE IF ContextError(SESSIONS[id].answers) # "none"
       THEN Respond(t, "summary", id, "context", TRUE, 500,
                    ContextError(SESSIONS[id].answers), Error(ContextError(SESSIONS[id].answers)))
       ELSE IF CallLlmYields
       THEN Suspend(t, "sum_llm", [NoLoc EXCEPT !.op = "summary", !.sid = id], "llm", TRUE)
       ELSE AfterSumLlm(t, id, TRUE, llm)

\* --------------------------------------------------------- start_interview

NameQuestion ==
    PyStr(<<"Hello! Before we begin the interview, could you please tell me your name?">>)

\* start_interview from the return of text_to_speech, lines 87-93.
AfterStartTts(t, id, touched, tts) ==
    IF tts = FAIL
    THEN Respond(t, "start", id, "none", touched, 500, "tts", Error("ServiceError"))
    ELSE Respond(t, "start", id, "none", touched, 200, "none",
                 [NoBody EXCEPT !.question = NameQuestion, !.audio_file = tts])

\* Variant: the same id is given every time.
Uuid4Reused == CHOOSE id \in Ids : \A other \in Ids : id <= other

\* uuid4 gives an id that no session has.  The handlers only compare ids, so
\* which unused id it is makes no difference: the smallest stands for it.
Uuid4 == CHOOSE id \in Ids \ DOMAIN SESSIONS : \A other \in Ids \ DOMAIN SESSIONS : id <= other

\* A request to start_interview arrives: lines 73-87.
StartInterview(t, id, role, tts) ==
    /\ pc[t] = "idle"
    /\ Cardinality(DOMAIN SESSIONS) < MaxSessions
    /\ id = Uuid4
    /\ SESSIONS' = (id :> NewSession(role)) @@ SESSIONS
    /\ accepted' = (id :> 0) @@ accepted
    /\ UNCHANGED provider
    /\ IF TtsYields
       THEN Suspend(t, "tts", [NoLoc EXCEPT !.op = "start", !.sid = id], "none", TRUE)
       ELSE AfterStartTts(t, id, TRUE, tts)

\* ---------------------------------------------------------- the event loop

\* The event loop resumes the suspended coroutine of slot t with the result
\* of what it awaited.
Resume(t, stt, llm, tts) ==
    /\ pc[t] # "idle"
    /\ UNCHANGED provider
    /\ LET id == loc[t].sid IN
       CASE pc[t] = "read" -> AfterRead(t, id, stt, llm, tts)
         [] pc[t] = "gen_llm" ->
                AfterGenLlm(t, id, SESSIONS, loc[t].transcript, loc[t].name, llm, tts)
         [] pc[t] = "eval_llm" ->
                AfterEvalLlm(t, id, loc[t].question, loc[t].transcript, llm)
         [] pc[t] = "sum_llm" ->
                UNCHANGED <<SESSIONS, accepted>> /\ AfterSumLlm(t, id, TRUE, llm)
         [] pc[t] = "tts" /\ loc[t].op = "submit" ->
                AfterNameTts(t, id, SESSIONS, loc[t].transcript, loc[t].question, FALSE, tts)
         [] pc[t] = "tts" /\ loc[t].op = "next" ->
                UNCHANGED <<SESSIONS, accepted>>
                    /\ AfterNextTts(t, id, loc[t].question, FALSE, tts)
         [] pc[t] = "tts" /\ loc[t].op = "start" ->
                UNCHANGED <<SESSIONS, accepted>> /\ AfterStartTts(t, id, FALSE, tts)

\* Which gateways the step of a resumed coroutine calls before it suspends
\* again or returns.
ResumeCallsLlm(t) ==
    \/ pc[t] \in {"gen_llm", "eval_llm", "sum_llm"}
    \/ /\ pc[t] = "read"
       /\ ~CallLlmYields
       /\ loc[t].sid \in DOMAIN SESSIONS
       /\ SESSIONS[loc[t].sid].awaiting_name \/ EvaluateAnswerArgs <= EvaluateAnswerParams

ResumeCallsTts(t) ==
    \/ pc[t] = "tts"
    \/ /\ ~TtsYields
       /\ \/ pc[t] = "gen_llm"
          \/ /\ pc[t] = "read"
             /\ ~CallLlmYields
             /\ loc[t].sid \in DOMAIN SESSIONS
             /\ SESSIONS[loc[t].sid].awaiting_name

SummaryCallsLlm(id) ==
    /\ ~CallLlmYields
    /\ id \in DOMAIN SESSIONS
    /\ SESSIONS[id].answers # <<>>

Next ==
    \E t \in Tasks :
        \/ \E id \in Ids, role \in Roles, tts \in Called(~TtsYields, TtsOutcomes) :
               StartInterview(t, id, role, tts)
        \/ \E id \in Ids : SubmitAnswer(t, id)
        \/ \E id \in Ids, tts \in Called(~TtsYields, TtsOutcomes) : NextQuestion(t, id, tts)
        \/ \E id \in Ids : \E llm \in Called(SummaryCallsLlm(id), LlmOutcomes) :
               Summary(t, id, llm)
        \/ \E stt \in Called(pc[t] = "read", SttOutcomes),
              llm \in Called(ResumeCallsLlm(t), LlmOutcomes),
              tts \in Called(ResumeCallsTts(t), TtsOutcomes) :
               Resume(t, stt, llm, tts)

Spec == Init /\ [][Next]_vars

\* ------------------------------------------------------ the parsers alone

GenTokens == {"fence", "json", "[", "]", "{", "}", ",", "q1", "7", "w"}
GenTexts == UNION {[1..n -> GenTokens] : n \in 0..MaxReplyLen}
GenNames == {<<>>, <<"A", "l">>}
GenRole == "Backend Engineer"

InitGen ==
    /\ provider = "elevenlabs"
    /\ SESSIONS = <<>>
    /\ pc = [t \in Tasks |-> "idle"]
    /\ loc = [t \in Tasks |-> NoLoc]
    /\ accepted = <<>>
    /\ outage = FALSE
    /\ ev = NoEvent
    /\ peeked = NoPeek
    /\ gen \in [reply : GenTexts, name : GenNames, fn : {"none"}, out : {PyNone}]

\* generate_questions is called and call_llm returns gen.reply.
GenerateCall ==
    /\ gen.fn = "none"
    /\ gen' = [gen EXCEPT !.fn = "questions",
                          !.out = GenerateQuestions(GenRole, gen.name, gen.reply)]
    /\ UNCHANGED <<provider, SESSIONS, pc, loc, accepted, outage, ev, peeked>>

\* evaluate_answer is called and call_llm returns gen.reply.
EvaluateCall ==
    /\ gen.fn = "none"
    /\ gen' = [gen EXCEPT !.fn = "evaluation", !.out = EvaluateAnswer(gen.reply)]
    /\ UNCHANGED <<provider, SESSIONS, pc, loc, accepted, outage, ev, peeked>>

NextGen == GenerateCall \/ EvaluateCall

SpecGen == InitGen /\ [][NextGen]_vars

\* ------------------------------------------------------- summary alone
\* No run of the handlers records an answer: the call of evaluate_answer
\* raises first.  Here summary is given the answers submit_answer would
\* record, lines 144-148: for each, a question, a transcript and what
\* evaluate_answer returns for some reply.

\* Replies that score an answer: 6, 7, 8, then 8, 9, 10, then a relevance
\* given in words.
ScoredReplies ==
    { <<"{", "relevance", ":", "6", ",", "clarity", ":", "7", ",",
        "correctness", ":", "8", ",", "feedback", ":", "fb", "}">>,
      <<"{", "relevance", ":", "8", ",", "clarity", ":", "9", ",",
        "correctness", ":", "10", ",", "feedback", ":", "fb", "}">>,
      <<"{", "relevance", ":", "q1", ",", "clarity", ":", "7", ",",
        "correctness", ":", "7", ",", "feedback", ":", "fb", "}">> }

SumEvaluations == {EvaluateAnswer(reply) : reply \in Replies \cup ScoredReplies}

SumAnswers ==
    UNION {[1..n -> [question : {PyStr(<<"q1">>)}, transcript : {<<"A", "l">>},
                     evaluation : SumEvaluations]] : n \in 1..MaxTurns}

SumId == 1

InitSum ==
    /\ provider = "elevenlabs"
    /\ \E answers \in SumAnswers :
           /\ SESSIONS = (SumId :> [role |-> "Backend Engineer",
                                    index |-> Len(answers),
                                    questions |-> PyList([i \in 1..MaxTurns |-> PyStr(<<"q1">>)]),
                                    answers |-> answers,
                                    awaiting_name |-> FALSE,
                                    candidate_name |-> <<"A", "l">>])
           /\ accepted = (SumId :> Len(answers))
    /\ pc = [t \in Tasks |-> "idle"]
    /\ loc = [t \in Tasks |-> NoLoc]
    /\ outage = FALSE
    /\ ev = NoEvent
    /\ peeked = NoPeek
    /\ gen = NoGen

\* summary is called for the session and call_llm returns llm.
SummaryCall(t, llm) == Summary(t, SumId, llm)

NextSum ==
    \E t \in Tasks : \E llm \in Called(SummaryCallsLlm(SumId), LlmOutcomes) :
        SummaryCall(t, llm)

SpecSum == InitSum /\ [][NextSum]_vars

\* ------------------------------------------------------------------ claims

\* The phase of a session as the specification names it, for a session whose
\* questions value has a length.
Phase(session) ==
    IF session.awaiting_name THEN "AWAITING_NAME"
    ELSE IF session.index < PyLen(session.questions) THEN "IN_PROGRESS"
    ELSE "COMPLETED"

\* The coroutine of slot t stands between a read of its session and a later
\* access to it.
Holding(t) == pc[t] \in {"gen_llm", "eval_llm", "sum_llm"}

InFlight(t, op, id) == pc[t] # "idle" /\ loc[t].op = op /\ loc[t].sid = id

C3_MutualExclusion ==
    /\ ev.touched =>
          \A u \in Tasks \ {ev.task} : ~(Holding(u) /\ loc[u].sid = ev.sid)
    /\ \A t, u \in Tasks : (t # u /\ Holding(t) /\ Holding(u)) => loc[t].sid # loc[u].sid

\* A submit_answer has just read its session while another submit_answer on
\* the same session is suspended.
C3_Witness ==
    /\ ev.touched /\ ev.op = "submit"
    /\ \E u \in Tasks \ {ev.task} : InFlight(u, "submit", ev.sid)

\* C4: a submit_answer that finds its session past name collection with
\* index >= len(questions), its transcription having succeeded, answers 400,
\* asks for no evaluation and leaves the store as it was.
C4_ConflictWhenCompleted ==
    [][\A t \in Tasks :
          ( /\ pc[t] = "read" /\ pc'[t] # "read"
            /\ ev'.cause # "stt"
            /\ loc[t].sid \in DOMAIN SESSIONS
            /\ ~SESSIONS[loc[t].sid].awaiting_name
            /\ HasLen(SESSIONS[loc[t].sid].questions)
            /\ SESSIONS[loc[t].sid].index >= PyLen(SESSIONS[loc[t].sid].questions) )
          => ( /\ ev'.task = t /\ ev'.done /\ ev'.status = 400
               /\ ev'.body.detail = "Interview already completed"
               /\ ev'.body.evaluation = PyNone
               /\ pc'[t] = "idle"
               /\ SESSIONS' = SESSIONS /\ accepted' = accepted )]_vars

\* A submit_answer has just been refused with 400 on a session past name
\* collection.
C4_Witness ==
    /\ ev.done /\ ev.op = "submit" /\ ev.status = 400
    /\ ~SESSIONS[ev.sid].awaiting_name
    /\ SESSIONS[ev.sid].index >= PyLen(SESSIONS[ev.sid].questions)

\* C5: the phase of a session only moves from AWAITING_NAME to IN_PROGRESS
\* and from IN_PROGRESS to COMPLETED (stated for the sessions whose questions
\* value has a length before and after the step).
C5_PhaseMonotone ==
    [][\A id \in DOMAIN SESSIONS :
          (HasLen(SESSIONS[id].questions) /\ HasLen(SESSIONS'[id].questions)) =>
              \/ Phase(SESSIONS'[id]) = Phase(SESSIONS[id])
              \/ Phase(SESSIONS[id]) = "AWAITING_NAME" /\ Phase(SESSIONS'[id]) = "IN_PROGRESS"
              \/ Phase(SESSIONS[id]) = "IN_PROGRESS" /\ Phase(SESSIONS'[id]) = "COMPLETED"]_vars

\* C6: a session that has left AWAITING_NAME has a non-empty list of
\* questions.
C6_QuestionsNonEmpty ==
    \A id \in DOMAIN SESSIONS :
        ~SESSIONS[id].awaiting_name =>
            SESSIONS[id].questions.kind = "list" /\ Len(SESSIONS[id].questions.val) >= 1

\* C7: as long as no gateway call has failed at transport level, every
\* submit_answer on a known session succeeds, or is refused with 400 because
\* every question of the session has its answer.
C7_NeverDeadEnds ==
    (~outage /\ ev.done /\ ev.op = "submit" /\ ev.status # 404) =>
        \/ ev.status = 200
        \/ /\ ev.status = 400
           /\ ~SESSIONS[ev.sid].awaiting_name
           /\ SESSIONS[ev.sid].questions.kind = "list"
           /\ Len(SESSIONS[ev.sid].questions.val) >= 1
           /\ Len(SESSIONS[ev.sid].answers) = Len(SESSIONS[ev.sid].questions.val)

\* C8: a normal turn on a session with a list of questions, whose
\* transcription and text generation succeeded and which is not refused as
\* completed, returns 200 with an evaluation.
C8_EveryAnswerEvaluated ==
    ( /\ ev.done /\ ev.op = "submit" /\ ev.branch = "turn"
      /\ ~outage /\ ev.status # 400 /\ ev.cause \notin {"stt", "llm"}
      /\ SESSIONS[ev.sid].questions.kind = "list" ) =>
        ev.status = 200 /\ ev.body.evaluation.kind = "dict"

IsQuestionList(v) ==
    /\ v.kind = "list"
    /\ Len(v.val) >= 1
    /\ \A i \in 1..Len(v.val) : v.val[i].kind = "str"

\* C9: for every reply generate_questions returns a non-empty list of
\* strings, and the fallback whenever the extracted text is no JSON or no
\* array.
C9_QuestionsAlwaysUsable ==
    gen.fn = "questions" =>
        /\ IsQuestionList(gen.out)
        /\ LET r == JsonLoads(Extract(gen.reply, "[", "]")) IN
           (~r.ok \/ r.val.kind # "list") => gen.out = FallbackQuestions(GenRole, gen.name)

\* C10: a request of submit_answer, next_question or summary for an id that
\* is not in the store is answered 404 in the step it arrives in, with the
\* store unchanged; no id ever leaves the store, and no request for an id in
\* the store is answered 404.
C10_UnknownIdNotFound ==
    [][ /\ ( /\ ev'.task \in Tasks
             /\ pc[ev'.task] = "idle"
             /\ ev'.op \in {"submit", "next", "summary"}
             /\ ev'.sid \notin DOMAIN SESSIONS )
           => ( /\ ev'.done /\ ev'.status = 404 /\ ev'.cause = "NotFound"
                /\ SESSIONS' = SESSIONS /\ outage' = outage )
        /\ DOMAIN SESSIONS \subseteq DOMAIN SESSIONS'
        /\ \A id \in DOMAIN SESSIONS : SESSIONS'[id].role = SESSIONS[id].role
        /\ (ev'.sid \in DOMAIN SESSIONS') => ev'.status # 404 ]_vars

\* A request for an unknown id has just been answered 404 while a session
\* that is past name collection exists.
C10_Witness ==
    /\ ev.done /\ ev.status = 404 /\ ev.op \in {"submit", "next", "summary"}
    /\ \E id \in DOMAIN SESSIONS : ~SESSIONS[id].awaiting_name

\* C11: a submit_answer that resumes from reading its audio on a session that
\* awaits the name, and does not raise in that step, stores the stripped
\* transcript as candidate_name, clears awaiting_name, stores the questions
\* generate_questions makes of some reply for the stored role and that name,
\* and leaves index at 0 and answers empty, the session then being in
\* progress; and the 200 response of the name branch carries no evaluation,
\* name_collected true, and the greeting followed by questions[0].
C11_NameTurn ==
    [][\A t \in Tasks :
         /\ ( /\ pc[t] = "read" /\ ev'.task = t /\ ev'.branch = "name"
              /\ ev'.cause = "none" )
            => LET id == loc[t].sid
                   tr == IF ev'.done THEN ev'.body.transcript ELSE loc'[t].transcript
                   name == Strip(tr)
                   before == SESSIONS[id]
                   after == SESSIONS'[id]
               IN  /\ before.awaiting_name
                   /\ after.candidate_name = name
                   /\ after.awaiting_name = FALSE
                   /\ after.role = before.role
                   /\ after.index = 0 /\ after.answers = <<>>
                   /\ \E reply \in Replies :
                          after.questions = GenerateQuestions(before.role, name, reply)
                   /\ Phase(after) = "IN_PROGRESS"
         /\ ( /\ pc[t] # "idle" /\ ev'.task = t /\ ev'.done /\ ev'.op = "submit"
              /\ ev'.branch = "name" /\ ev'.status = 200 )
            => LET after == SESSIONS'[ev'.sid] IN
                   /\ ev'.body.evaluation = PyNone
                   /\ ev'.body.name_collected
                   /\ after.candidate_name = Strip(ev'.body.transcript)
                   /\ SubscriptError(after.questions, 0) = "none"
                   /\ ev'.body.question =
                          PyStr(<<"Thank you, ">> \o after.candidate_name \o <<"! ">>
                                    \o Format(Subscript(after.questions, 0)))
                   /\ ~after.awaiting_name /\ after.index = 0 /\ after.answers = <<>>
                   /\ Phase(after) = "IN_PROGRESS" ]_vars

\* The name branch has just returned 200 for a spoken name, the questions
\* being the two of the reply.
C11_Witness ==
    /\ ev.done /\ ev.op = "submit" /\ ev.branch = "name" /\ ev.status = 200
    /\ ev.body.name_collected
    /\ SESSIONS[ev.sid].candidate_name = <<"A", "l">>
    /\ SESSIONS[ev.sid].questions = PyList(<<PyStr(<<"q1">>), PyStr(<<"q2">>)>>)
    /\ ev.body.question = PyStr(<<"Thank you, ", "A", "l", "! ", "q1">>)

\* C12: candidate_name and questions are assigned at most once per session.
\* A candidate_name that is set never changes, a questions value that is
\* populated never changes, and a step that changes either finds the session
\* awaiting the name with both unset and leaves it past name collection,
\* whatever requests are in flight.
C12_AssignedOnce ==
    [][\A id \in DOMAIN SESSIONS :
         /\ SESSIONS[id].candidate_name # NONE
                => SESSIONS'[id].candidate_name = SESSIONS[id].candidate_name
         /\ SESSIONS[id].questions # PyList(<<>>)
                => SESSIONS'[id].questions = SESSIONS[id].questions
         /\ ( \/ SESSIONS'[id].candidate_name # SESSIONS[id].candidate_name
              \/ SESSIONS'[id].questions # SESSIONS[id].questions )
                => ( /\ SESSIONS[id].awaiting_name
                     /\ SESSIONS[id].candidate_name = NONE
                     /\ SESSIONS[id].questions = PyList(<<>>)
                     /\ ~SESSIONS'[id].awaiting_name ) ]_vars

\* The name branch of one submit_answer has just stored the name and the
\* questions while a second submit_answer on the same session, in flight
\* since the session awaited the name, has yet to read the session.
C12_Witness ==
    /\ ev.op = "submit" /\ ev.branch = "name"
    /\ SESSIONS[ev.sid].candidate_name # NONE
    /\ SESSIONS[ev.sid].questions.kind = "list"
    /\ SESSIONS[ev.sid].questions # PyList(<<>>)
    /\ \E u \in Tasks \ {ev.task} :
           pc[u] = "read" /\ loc[u].op = "submit" /\ loc[u].sid = ev.sid

\* C13: next_question leaves every field of every session as it was, and as
\* long as no submit_answer on the session has returned 200 in between, each
\* answer of next_question for the session (speech synthesis not failing) is
\* the answer before it: the same question, or the same completion marker.
C13_PeekIdempotent ==
    [][ /\ (ev'.op = "next" /\ ev' # ev) => SESSIONS' = SESSIONS
        /\ ( /\ ev' # ev /\ ev'.op = "next" /\ ev'.done
             /\ ev'.status # 404 /\ ev'.cause # "tts"
             /\ peeked.sid = ev'.sid )
           => ( /\ ev'.status = peeked.status
                /\ ev'.body = peeked.body ) ]_vars

\* An evaluation as the specification describes it: the three sub-scores,
\* each an integer from 0 to 10, and a feedback string.
IsEvaluation(v) ==
    /\ v.kind = "dict"
    /\ (Scores \cup {"feedback"}) \subseteq DOMAIN v.val
    /\ \A k \in Scores : v.val[k].kind = "num" /\ NumVal(v.val[k]) \in 0..10
    /\ v.val["feedback"].kind = "str"

C15_EmptySummaryNoLlm ==
    [][ ( /\ ev' # ev /\ ev'.op = "summary"
          /\ ev'.sid \in DOMAIN SESSIONS
          /\ SESSIONS[ev'.sid].answers = <<>> )
        => ( /\ pc[ev'.task] = "idle" /\ pc'[ev'.task] = "idle"
             /\ ev'.done /\ ev'.status = 200 /\ ev'.branch = "empty"
             /\ ev'.body.summary.kind = "dict"
             /\ ev'.body.summary.val =
                    [overall_feedback |-> [kind |-> "str", val |-> <<"No answers recorded yet.">>],
                     strengths |-> [kind |-> "str", val |-> <<"N/A">>],
                     improvements |-> [kind |-> "str", val |-> <<"N/A">>]]
             /\ outage' = outage
             /\ SESSIONS' = SESSIONS ) ]_vars

\* The fixed summary has just been returned for a session that is past name
\* collection, while another session still awaits its name.
C15_Witness ==
    /\ ev.done /\ ev.op = "summary" /\ ev.status = 200 /\ ev.branch = "empty"
    /\ ev.sid \in DOMAIN SESSIONS
    /\ ~SESSIONS[ev.sid].awaiting_name
    /\ SESSIONS[ev.sid].answers = <<>>
    /\ \E id \in DOMAIN SESSIONS : SESSIONS[id].awaiting_name

\* The tenths reported for a sub-score are the nearest to its mean.
NearestTenths(tenths, answers, key) ==
    LET off == 10 * SumOf(answers, key, 1) - tenths * Len(answers) IN
    2 * off <= Len(answers) /\ -2 * off <= Len(answers)

C17_SessionIsolation ==
    [][ /\ \A id \in DOMAIN SESSIONS :
              id # ev'.sid => (id \in DOMAIN SESSIONS' /\ SESSIONS'[id] = SESSIONS[id])
        /\ (ev' # ev /\ ev'.op = "start" /\ pc[ev'.task] = "idle")
              => ( /\ ev'.sid \notin DOMAIN SESSIONS
                   /\ DOMAIN SESSIONS' = DOMAIN SESSIONS \cup {ev'.sid} )
        /\ DOMAIN SESSIONS' # DOMAIN SESSIONS => ev'.op = "start" ]_vars

\* The name branch has just changed one session while a submit_answer is in
\* flight on another session, which still awaits its name.
C17_Witness ==
    /\ ev.op = "submit" /\ ev.branch = "name"
    /\ ev.sid \in DOMAIN SESSIONS
    /\ ~SESSIONS[ev.sid].awaiting_name
    /\ \E other \in DOMAIN SESSIONS \ {ev.sid} :
           /\ SESSIONS[other] = NewSession(SESSIONS[other].role)
           /\ \E u \in Tasks : InFlight(u, "submit", other)

C19_FailedSubmitNoEffect ==
    [][ ( /\ ev' # ev /\ ev'.done /\ ev'.op = "submit" /\ ev'.status >= 400 )
        => /\ SESSIONS' = SESSIONS
           /\ ev'.branch = "name" =>
                  /\ SESSIONS'[ev'.sid].awaiting_name
                  /\ SESSIONS'[ev'.sid].candidate_name = NONE
                  /\ SESSIONS'[ev'.sid].questions = PyList(<<>>)
                  /\ SESSIONS'[ev'.sid].index = 0
                  /\ SESSIONS'[ev'.sid].answers = <<>> ]_vars

\* C20: next_question answers with the completion marker only for a session
\* that is past name collection and has a list of at least one question, all
\* of them answered.
C20_CompletedOnlyAtEnd ==
    ( /\ ev.done /\ ev.op = "next" /\ ev.status = 200
      /\ ev.body.detail = "completed" )
    => /\ ~SESSIONS[ev.sid].awaiting_name
       /\ SESSIONS[ev.sid].questions.kind = "list"
       /\ Len(SESSIONS[ev.sid].questions.val) >= 1
       /\ Len(SESSIONS[ev.sid].answers) = Len(SESSIONS[ev.sid].questions.val)

====
